---- MODULE Spec2Model ----
(***************************************************************************)
(* Live-synchronization engine of omd (src/main.rs, server mode):          *)
(*   - the watcher thread (watch_markdown_file) drains the notify channel,  *)
(*     reads and renders the file and spawns one update task per Modify     *)
(*     event;                                                               *)
(*   - each update task takes the write half of html_content's RwLock,      *)
(*     stores the render and sends () on the broadcast channel;             *)
(*   - serve_html takes the read half and returns the page;                 *)
(*   - sse_handler subscribes to the broadcast channel and event_stream     *)
(*     turns every received () into a "reload" event;                       *)
(*   - the page's script (build_full_html) opens /events after loading and  *)
(*     reloads the page on every "reload" event.                            *)
(* The file system and the notify library are the environment.             *)
(***************************************************************************)
EXTENDS Integers, Sequences, FiniteSets, TLC

\* broadcast::channel::<()>(100): the channel retains the last Capacity values
\* (tokio may round the buffer up to a power of two; the model takes the
\* number as written).
Capacity == 100

\* Bounds of the model.
NViewers == 2      \* browser tabs
MaxText == 3       \* distinct contents the source file goes through
MaxQueue == 2      \* events waiting in the notify channel
MaxTasks == 2      \* update tasks alive at the same time
LagSlack == 2      \* signals published beyond Capacity in the overflow runs

Viewers == 1..NViewers
Slots == 1..MaxTasks

VARIABLES
    clipboard,     \* args.clipboard: the markdown came from the clipboard
    file_path,     \* AppState.file_path
    file,          \* the file at file_path: [present, text]; text is a content number
    recreated,     \* the file's content was put there by delete-and-recreate
    rx_notify,     \* the notify channel: events not yet seen by the watcher
    watcher,       \* the watcher thread: "starting", "running", "returned"
                   \* or "panicked"
    tasks,         \* the spawned update tasks, by slot
    spawned,       \* number of update tasks spawned so far
    lastRendered,  \* the render handed to the most recently spawned task
    html_content,  \* the String behind the RwLock, as two halves
    commits,       \* number of completed stores into html_content
    lockW,         \* tasks holding the write guard
    lockR,         \* viewers whose serve_html holds a read guard
    lockQ,         \* the lock's FIFO wait queue
    chan,          \* the broadcast channel's retained values
    sent,          \* number of values the channel accepted so far
    subs,          \* viewers owning a live broadcast::Receiver
    next,          \* per receiver: position of the next value to receive
    vpc,           \* per viewer: where its browser / its handlers are
    page,          \* per viewer: the document its last GET / returned
    lastSig,       \* per viewer: the signal that caused its last reload
    readErrors,    \* "Error reading file" lines logged
    sendErrors     \* "Error sending notification" lines logged

vars == <<clipboard, file_path, file, recreated, rx_notify, watcher, tasks, spawned, lastRendered,
          html_content, commits, lockW, lockR, lockQ, chan, sent,
          subs, next, vpc, page, lastSig, readErrors, sendErrors>>

argVars == <<clipboard, file_path>>
fsVars == <<file, recreated>>
taskVars == <<tasks, spawned, lastRendered>>
cacheVars == <<html_content, commits>>
lockVars == <<lockW, lockR, lockQ>>
chanVars == <<chan, sent>>
viewVars == <<vpc, page, lastSig>>
logVars == <<readErrors, sendErrors>>

-----------------------------------------------------------------------------
\* Pure helpers.

\* render_markdown_to_html: an opaque pure function of the text.  The String
\* is kept as two halves so that a store or a read that is not atomic shows.
render_markdown_to_html(text) == [lo |-> text, hi |-> text]

Whole(h) == h.lo = h.hi

NoHtml == [lo |-> 0, hi |-> 0]
NoPage == [lo |-> 0, hi |-> 0, seq |-> 0]
FreeTask == [pc |-> 0, html |-> NoHtml, seq |-> 0]

\* The statements of the spawned async block, in program order; the other
\* orders are the block with a statement misplaced, repeated or left out.
TaskOrderSendTwice == <<"acquire", "write_lo", "write_hi", "send", "send", "release">>
TaskOrderNoRelease == <<"acquire", "write_lo", "write_hi", "send">>
TaskOrderSendFirst == <<"send", "acquire", "write_lo", "write_hi", "release">>
TaskOrderReleaseEarly == <<"acquire", "write_lo", "write_hi", "release", "send">>
TaskOrder == <<"acquire", "write_lo", "write_hi", "send", "release">>

TaskOp(s) == IF tasks[s].pc \in 1..Len(TaskOrder) THEN TaskOrder[tasks[s].pc] ELSE "none"

\* The task after finishing its current statement; past the last one it is gone.
Advance(t) == IF t.pc >= Len(TaskOrder) THEN FreeTask ELSE [t EXCEPT !.pc = t.pc + 1]

LiveSlots == {s \in Slots : tasks[s].pc # 0}
FreeSlots == Slots \ LiveSlots
MinOf(S) == CHOOSE x \in S : \A y \in S : x <= y

Pending(kind) == Cardinality({i \in 1..Len(rx_notify) : rx_notify[i] = kind})

\* tokio::sync::RwLock: many readers or one writer (CanReadAlways and
\* CanWriteOverReaders are a lock that fails to exclude).
CanReadAlways == TRUE
CanRead == lockW = {}
CanWriteOverReaders == lockW = {}
CanWrite == lockW = {} /\ lockR = {}

Queued(kind, who) == \E i \in 1..Len(lockQ) : lockQ[i] = [kind |-> kind, who |-> who]

\* broadcast::Sender::send is a plain (non-async) call: it never waits
\* (SendWaitsForRoom is a bounded queue's send, which would, and
\* SendNeedsReceiver a rendezvous).
SendNeedsReceiver == subs # {}
SendWaitsForRoom == \A v \in subs : sent - next[v] < Capacity
SendReady == TRUE

\* The values the channel retains after one more send.
Retain(q) == IF Len(q) > Capacity THEN Tail(q) ELSE q

\* Dropping a broadcast::Receiver unregisters that receiver alone
\* (DropEveryReceiver is a close that shuts the channel for all, KeepReceiver
\* a receiver that outlives its connection).
KeepReceiver(v) == subs
DropEveryReceiver(v) == {}
DropReceiver(v) == subs \ {v}

Backlog(v) == sent - next[v]
Lagged(v) == Backlog(v) > Capacity
\* The retained value at absolute position p (0-based).
ValueAt(p) == chan[p - (sent - Len(chan)) + 1]

\* Sender::subscribe: the new receiver starts after the last value sent
\* (SubscribeFromOldest would replay what the channel retains).
SubscribeFromOldest == sent - Len(chan)
SubscribePosition == sent

-----------------------------------------------------------------------------
\* Initial state: run_server_mode has read and rendered the file, built
\* AppState, dropped the channel's first receiver and spawned the watcher,
\* which has installed its watch on a file given by the user.

\* The name run_server_mode gives the clipboard source, and the names a user
\* can give a file.
ClipboardPath == "Clipboard"
UserPaths == {"notes.md", "Clipboard"}

\* The first render, stored in AppState before the server is built.
NoInitialRender == NoHtml
InitialRender == render_markdown_to_html(1)

InitState ==
    /\ file = [present |-> TRUE, text |-> 1]
    /\ recreated = FALSE
    /\ rx_notify = <<>>
    /\ tasks = [s \in Slots |-> FreeTask]
    /\ spawned = 0
    /\ lastRendered = InitialRender
    /\ html_content = InitialRender
    /\ commits = 0
    /\ lockW = {}
    /\ lockR = {}
    /\ lockQ = <<>>
    /\ chan = <<>>
    /\ sent = 0
    /\ subs = {}
    /\ next = [v \in Viewers |-> 0]
    /\ vpc = [v \in Viewers |-> "new"]
    /\ page = [v \in Viewers |-> NoPage]
    /\ lastSig = [v \in Viewers |-> 0]
    /\ readErrors = 0
    /\ sendErrors = 0

Init ==
    /\ clipboard = FALSE
    /\ file_path = "notes.md"
    /\ watcher = "running"
    /\ InitState

\* The state right after spawn_blocking, for any source: the clipboard, or a
\* file of any name.  The watcher thread has not run its first statement.
InitSource ==
    /\ clipboard \in BOOLEAN
    /\ file_path \in (IF clipboard THEN {ClipboardPath} ELSE UserPaths)
    /\ watcher = "starting"
    /\ InitState

-----------------------------------------------------------------------------
\* Environment: the file system and the notify watcher feeding rx_notify.

\* Room for one more Modify event: every Modify may need a task slot.
RoomForModify ==
    /\ Len(rx_notify) < MaxQueue
    /\ Pending("Modify") + Cardinality(LiveSlots) < MaxTasks

\* An in-place save with new content.
EditFile ==
    /\ file.present
    /\ file.text < MaxText
    /\ RoomForModify
    /\ file' = [file EXCEPT !.text = file.text + 1]
    /\ recreated' = FALSE
    /\ rx_notify' = Append(rx_notify, "Modify")
    /\ UNCHANGED <<argVars, watcher, taskVars, cacheVars, lockVars, chanVars, subs, next,
                   viewVars, logVars>>

\* A Modify event without new content (metadata change, rewrite of the same
\* text), while some viewer is connected.
TouchFile ==
    /\ file.present
    /\ RoomForModify
    /\ subs # {}
    /\ spawned + Pending("Modify") < Capacity + LagSlack
    /\ rx_notify' = Append(rx_notify, "Modify")
    /\ UNCHANGED <<argVars, fsVars, watcher, taskVars, cacheVars, lockVars, chanVars, subs,
                   next, viewVars, logVars>>

\* The file is removed (first half of an editor's atomic save).
DeleteFile ==
    /\ file.present
    /\ Len(rx_notify) < MaxQueue
    /\ file' = [file EXCEPT !.present = FALSE]
    /\ recreated' = FALSE
    /\ rx_notify' = Append(rx_notify, "Remove")
    /\ UNCHANGED <<argVars, watcher, taskVars, cacheVars, lockVars, chanVars, subs, next,
                   viewVars, logVars>>

\* The file is created again, with new content.
CreateFile ==
    /\ ~file.present
    /\ file.text < MaxText
    /\ Len(rx_notify) < MaxQueue
    /\ file' = [present |-> TRUE, text |-> file.text + 1]
    /\ recreated' = TRUE
    /\ rx_notify' = Append(rx_notify, "Create")
    /\ UNCHANGED <<argVars, watcher, taskVars, cacheVars, lockVars, chanVars, subs, next,
                   viewVars, logVars>>

\* The notify backend reports an error.
WatchError ==
    /\ Len(rx_notify) < MaxQueue
    /\ Pending("Error") = 0
    /\ rx_notify' = Append(rx_notify, "Error")
    /\ UNCHANGED <<argVars, fsVars, watcher, taskVars, cacheVars, lockVars, chanVars, subs,
                   next, viewVars, logVars>>

\* The file is saved while no watch is installed on it: nothing is reported.
EditUnwatched ==
    /\ watcher # "running"
    /\ file.present
    /\ file.text < MaxText
    /\ file' = [file EXCEPT !.text = file.text + 1]
    /\ UNCHANGED <<argVars, recreated, rx_notify, watcher, taskVars, cacheVars,
                   lockVars, chanVars, subs, next, viewVars, logVars>>

-----------------------------------------------------------------------------
\* watch_markdown_file: the statements before the loop.

\* The test that makes the watcher return at once.
WatcherNeverDisabled(p) == FALSE
WatcherDisabled(p) == p = ClipboardPath

\* The clipboard test, then PollWatcher::new / RecommendedWatcher::new and
\* watch(), all of which succeed.
WatcherStart ==
    /\ watcher = "starting"
    /\ watcher' = IF WatcherDisabled(file_path) THEN "returned" ELSE "running"
    /\ UNCHANGED <<argVars, fsVars, rx_notify, taskVars, cacheVars, lockVars,
                   chanVars, subs, next, viewVars, logVars>>

\* The watcher's constructor or watch() returns Err: unwrap() panics and the
\* blocking thread is gone.
WatcherSetupFails ==
    /\ watcher = "starting"
    /\ ~WatcherDisabled(file_path)
    /\ watcher' = "panicked"
    /\ UNCHANGED <<argVars, fsVars, rx_notify, taskVars, cacheVars, lockVars,
                   chanVars, subs, next, viewVars, logVars>>

-----------------------------------------------------------------------------
\* watch_markdown_file: one iteration of `for res in rx_notify`.

\* What a failed read does to the watcher thread: it logs and goes on
\* (AfterReadErrorPanic is an unwrap() in its place).
AfterReadErrorPanic == "panicked"
AfterReadError == "running"

\* Ok(event), Modify, read_to_string succeeds: render and spawn the update task.
WatcherModifyOk ==
    /\ watcher = "running"
    /\ rx_notify # <<>> /\ Head(rx_notify) = "Modify"
    /\ file.present
    /\ FreeSlots # {}
    /\ LET s == MinOf(FreeSlots)
           h == render_markdown_to_html(file.text)
       IN /\ tasks' = [tasks EXCEPT ![s] = [pc |-> 1, html |-> h, seq |-> 0]]
          /\ lastRendered' = h
    /\ spawned' = spawned + 1
    /\ rx_notify' = Tail(rx_notify)
    /\ UNCHANGED <<argVars, fsVars, watcher, cacheVars, lockVars, chanVars, subs, next,
                   viewVars, logVars>>

\* Ok(event), Modify, read_to_string fails: "Error reading file".
WatcherModifyErr ==
    /\ watcher = "running"
    /\ rx_notify # <<>> /\ Head(rx_notify) = "Modify"
    /\ ~file.present
    /\ readErrors' = readErrors + 1
    /\ watcher' = AfterReadError
    /\ rx_notify' = Tail(rx_notify)
    /\ UNCHANGED <<argVars, fsVars, taskVars, cacheVars, lockVars, chanVars, subs, next,
                   viewVars, sendErrors>>

\* Ok(event) of any other kind: the `if let EventKind::Modify(_)` does not match.
WatcherIgnore ==
    /\ watcher = "running"
    /\ rx_notify # <<>> /\ Head(rx_notify) \in {"Remove", "Create"}
    /\ rx_notify' = Tail(rx_notify)
    /\ UNCHANGED <<argVars, fsVars, watcher, taskVars, cacheVars, lockVars, chanVars, subs,
                   next, viewVars, logVars>>

\* Err(e): "watch error" is logged.
WatcherErr ==
    /\ watcher = "running"
    /\ rx_notify # <<>> /\ Head(rx_notify) = "Error"
    /\ rx_notify' = Tail(rx_notify)
    /\ UNCHANGED <<argVars, fsVars, watcher, taskVars, cacheVars, lockVars, chanVars, subs,
                   next, viewVars, logVars>>

\* One iteration of the watcher's loop, whatever the event.
WatcherStep == WatcherModifyOk \/ WatcherModifyErr \/ WatcherIgnore \/ WatcherErr

-----------------------------------------------------------------------------
\* The spawned update task.  Tasks run on the multi-thread runtime: which of
\* two spawned tasks is polled first is not determined by the spawn order.

\* html_content.write().await, first poll: taken at once or queued.
TaskAcquire(s) ==
    /\ TaskOp(s) = "acquire"
    /\ ~Queued("w", s)
    /\ IF CanWrite /\ lockQ = <<>>
       THEN /\ lockW' = lockW \cup {s}
            /\ tasks' = [tasks EXCEPT ![s] = Advance(tasks[s])]
            /\ UNCHANGED lockQ
       ELSE /\ lockQ' = Append(lockQ, [kind |-> "w", who |-> s])
            /\ UNCHANGED <<lockW, tasks>>
    /\ UNCHANGED <<argVars, fsVars, rx_notify, watcher, spawned, lastRendered, cacheVars,
                   lockR, chanVars, subs, next, viewVars, logVars>>

\* *html_content = html_output, first half of the store.
TaskWriteLo(s) ==
    /\ TaskOp(s) = "write_lo"
    /\ html_content' = [html_content EXCEPT !.lo = tasks[s].html.lo]
    /\ tasks' = [tasks EXCEPT ![s] = Advance(tasks[s])]
    /\ UNCHANGED <<argVars, fsVars, rx_notify, watcher, spawned, lastRendered, commits,
                   lockVars, chanVars, subs, next, viewVars, logVars>>

\* *html_content = html_output, second half: the store is complete.
TaskWriteHi(s) ==
    /\ TaskOp(s) = "write_hi"
    /\ html_content' = [html_content EXCEPT !.hi = tasks[s].html.hi]
    /\ commits' = commits + 1
    /\ tasks' = [tasks EXCEPT ![s] = Advance([tasks[s] EXCEPT !.seq = commits + 1])]
    /\ UNCHANGED <<argVars, fsVars, rx_notify, watcher, spawned, lastRendered, lockVars,
                   chanVars, subs, next, viewVars, logVars>>

\* notifier.send(()): Err when no receiver exists, else the value is stored
\* for every receiver.  The value carries, for the properties only, the number
\* of the store it announces (the task's own; not yet made: the one to come).
TaskSend(s) ==
    /\ TaskOp(s) = "send"
    /\ SendReady
    /\ IF subs = {}
       THEN /\ sendErrors' = sendErrors + 1
            /\ UNCHANGED chanVars
       ELSE /\ chan' = Retain(Append(chan, IF tasks[s].seq > 0 THEN tasks[s].seq
                                           ELSE commits + 1))
            /\ sent' = sent + 1
            /\ UNCHANGED sendErrors
    /\ tasks' = [tasks EXCEPT ![s] = Advance(tasks[s])]
    /\ UNCHANGED <<argVars, fsVars, rx_notify, watcher, spawned, lastRendered, cacheVars,
                   lockVars, subs, next, viewVars, readErrors>>

\* End of the async block: the write guard is dropped.
TaskRelease(s) ==
    /\ TaskOp(s) = "release"
    /\ lockW' = lockW \ {s}
    /\ tasks' = [tasks EXCEPT ![s] = Advance(tasks[s])]
    /\ UNCHANGED <<argVars, fsVars, rx_notify, watcher, spawned, lastRendered, cacheVars,
                   lockR, lockQ, chanVars, subs, next, viewVars, logVars>>

\* The lock hands itself to the head of its wait queue.
LockGrant ==
    /\ lockQ # <<>>
    /\ LET h == Head(lockQ)
       IN IF h.kind = "w"
          THEN /\ CanWrite
               /\ lockW' = lockW \cup {h.who}
               /\ tasks' = [tasks EXCEPT ![h.who] = Advance(tasks[h.who])]
               /\ UNCHANGED <<lockR, vpc>>
          ELSE /\ CanRead
               /\ lockR' = lockR \cup {h.who}
               /\ vpc' = [vpc EXCEPT ![h.who] = "reading"]
               /\ UNCHANGED <<lockW, tasks>>
    /\ lockQ' = Tail(lockQ)
    /\ UNCHANGED <<argVars, fsVars, rx_notify, watcher, spawned, lastRendered, cacheVars,
                   chanVars, subs, next, page, lastSig, logVars>>

-----------------------------------------------------------------------------
\* Viewers.

\* serve_html, html_content.read().await: taken at once or queued.
RequestRead(v) ==
    IF CanRead /\ lockQ = <<>>
    THEN /\ lockR' = lockR \cup {v}
         /\ vpc' = [vpc EXCEPT ![v] = "reading"]
         /\ UNCHANGED lockQ
    ELSE /\ lockQ' = Append(lockQ, [kind |-> "r", who |-> v])
         /\ vpc' = [vpc EXCEPT ![v] = "waiting"]
         /\ UNCHANGED lockR

\* A browser tab opens the page: GET /.  A closed tab does not come back; a
\* tab opened later is another viewer.
ViewerOpen(v) ==
    /\ vpc[v] = "new"
    /\ RequestRead(v)
    /\ UNCHANGED <<argVars, fsVars, rx_notify, watcher, taskVars, cacheVars, lockW, chanVars,
                   subs, next, page, lastSig, logVars>>

\* serve_html: build_full_html from the guarded String, reply, drop the guard.
ServeHtml(v) ==
    /\ vpc[v] = "reading"
    /\ page' = [page EXCEPT ![v] = [lo |-> html_content.lo, hi |-> html_content.hi,
                                    seq |-> commits]]
    /\ lockR' = lockR \ {v}
    /\ vpc' = [vpc EXCEPT ![v] = "loaded"]
    /\ UNCHANGED <<argVars, fsVars, rx_notify, watcher, taskVars, cacheVars, lockW, lockQ,
                   chanVars, subs, next, lastSig, logVars>>

\* The page's script opens EventSource("/events"): sse_handler subscribes.
SseHandler(v) ==
    /\ vpc[v] = "loaded"
    /\ subs' = subs \cup {v}
    /\ next' = [next EXCEPT ![v] = SubscribePosition]
    /\ vpc' = [vpc EXCEPT ![v] = "streaming"]
    /\ UNCHANGED <<argVars, fsVars, rx_notify, watcher, taskVars, cacheVars, lockVars,
                   chanVars, page, lastSig, logVars>>

\* event_stream: rx.recv().await returns.  Ok(()) yields a "reload" event;
\* Err(Lagged) ends the `while let Ok(_)` loop: the stream is over and the
\* receiver is dropped.
EventStreamRecv(v) ==
    /\ vpc[v] = "streaming"
    /\ Backlog(v) > 0
    /\ IF Lagged(v)
       THEN /\ subs' = DropReceiver(v)
            /\ next' = [next EXCEPT ![v] = 0]
            /\ vpc' = [vpc EXCEPT ![v] = "ended"]
            /\ UNCHANGED lastSig
       ELSE /\ next' = [next EXCEPT ![v] = next[v] + 1]
            /\ lastSig' = [lastSig EXCEPT ![v] = ValueAt(next[v])]
            /\ vpc' = [vpc EXCEPT ![v] = "reload"]
            /\ UNCHANGED subs
    /\ UNCHANGED <<argVars, fsVars, rx_notify, watcher, taskVars, cacheVars, lockVars,
                   chanVars, page, logVars>>

\* The script's onmessage: location.reload().  The old connection closes (its
\* receiver is dropped) and the page is requested again.
ViewerReload(v) ==
    /\ vpc[v] = "reload"
    /\ subs' = DropReceiver(v)
    /\ next' = [next EXCEPT ![v] = 0]
    /\ RequestRead(v)
    /\ UNCHANGED <<argVars, fsVars, rx_notify, watcher, taskVars, cacheVars, lockW, chanVars,
                   page, lastSig, logVars>>

\* The tab is closed: the connection ends and the receiver is dropped.
ViewerClose(v) ==
    /\ vpc[v] \in {"loaded", "streaming", "reload", "ended"}
    /\ subs' = DropReceiver(v)
    /\ next' = [next EXCEPT ![v] = 0]
    /\ vpc' = [vpc EXCEPT ![v] = "closed"]
    /\ page' = [page EXCEPT ![v] = NoPage]
    /\ lastSig' = [lastSig EXCEPT ![v] = 0]
    /\ UNCHANGED <<argVars, fsVars, rx_notify, watcher, taskVars, cacheVars, lockVars,
                   chanVars, logVars>>

-----------------------------------------------------------------------------
\* Specifications.

Next ==
    \/ EditFile
    \/ DeleteFile
    \/ CreateFile
    \/ WatchError
    \/ WatcherModifyOk
    \/ WatcherModifyErr
    \/ WatcherIgnore
    \/ WatcherErr
    \/ \E s \in Slots : TaskAcquire(s)
    \/ \E s \in Slots : TaskWriteLo(s)
    \/ \E s \in Slots : TaskWriteHi(s)
    \/ \E s \in Slots : TaskSend(s)
    \/ \E s \in Slots : TaskRelease(s)
    \/ LockGrant
    \/ \E v \in Viewers : ViewerOpen(v)
    \/ \E v \in Viewers : ServeHtml(v)
    \/ \E v \in Viewers : SseHandler(v)
    \/ \E v \in Viewers : EventStreamRecv(v)
    \/ \E v \in Viewers : ViewerReload(v)
    \/ \E v \in Viewers : ViewerClose(v)

Spec == Init /\ [][Next]_vars

\* The whole program with a single browser tab.
OneViewer == {1}

NextOne ==
    \/ EditFile
    \/ DeleteFile
    \/ CreateFile
    \/ WatchError
    \/ WatcherModifyOk
    \/ WatcherModifyErr
    \/ WatcherIgnore
    \/ WatcherErr
    \/ \E s \in Slots : TaskAcquire(s)
    \/ \E s \in Slots : TaskWriteLo(s)
    \/ \E s \in Slots : TaskWriteHi(s)
    \/ \E s \in Slots : TaskSend(s)
    \/ \E s \in Slots : TaskRelease(s)
    \/ LockGrant
    \/ \E v \in OneViewer : ViewerOpen(v)
    \/ \E v \in OneViewer : ServeHtml(v)
    \/ \E v \in OneViewer : SseHandler(v)
    \/ \E v \in OneViewer : EventStreamRecv(v)
    \/ \E v \in OneViewer : ViewerReload(v)
    \/ \E v \in OneViewer : ViewerClose(v)

SpecOne == Init /\ [][NextOne]_vars

\* In-place saves and any number of viewers, each of which loads the page,
\* listens on /events until its first reload event or until it disconnects,
\* and does not load the page again.
NextStreams ==
    \/ EditFile
    \/ WatcherModifyOk
    \/ \E s \in Slots : TaskAcquire(s)
    \/ \E s \in Slots : TaskWriteLo(s)
    \/ \E s \in Slots : TaskWriteHi(s)
    \/ \E s \in Slots : TaskSend(s)
    \/ \E s \in Slots : TaskRelease(s)
    \/ LockGrant
    \/ \E v \in Viewers : ViewerOpen(v)
    \/ \E v \in Viewers : ServeHtml(v)
    \/ \E v \in Viewers : SseHandler(v)
    \/ \E v \in Viewers : EventStreamRecv(v)
    \/ \E v \in Viewers : ViewerClose(v)

SpecStreams == Init /\ [][NextStreams]_vars

\* Overflow runs: one viewer that connects and then reads its stream late or
\* never, and a file that is saved again and again meanwhile, up to LagSlack
\* signals past the channel's capacity.
LagViewers == {1}

NextLag ==
    \/ TouchFile
    \/ WatcherModifyOk
    \/ \E s \in Slots : TaskAcquire(s)
    \/ \E s \in Slots : TaskWriteLo(s)
    \/ \E s \in Slots : TaskWriteHi(s)
    \/ \E s \in Slots : TaskSend(s)
    \/ \E s \in Slots : TaskRelease(s)
    \/ LockGrant
    \/ \E v \in LagViewers : ViewerOpen(v)
    \/ \E v \in LagViewers : ServeHtml(v)
    \/ \E v \in LagViewers : SseHandler(v)
    \/ \E v \in LagViewers : EventStreamRecv(v)

SpecLag == Init /\ [][NextLag]_vars

\* The program from the start of the watcher thread, for every source, with
\* one viewer that loads the page and listens.
NextSource ==
    \/ WatcherStart
    \/ WatcherSetupFails
    \/ EditUnwatched
    \/ (watcher = "running" /\ EditFile)
    \/ (watcher = "running" /\ WatchError)
    \/ WatcherModifyOk
    \/ WatcherErr
    \/ \E s \in Slots : TaskAcquire(s)
    \/ \E s \in Slots : TaskWriteLo(s)
    \/ \E s \in Slots : TaskWriteHi(s)
    \/ \E s \in Slots : TaskSend(s)
    \/ \E s \in Slots : TaskRelease(s)
    \/ LockGrant
    \/ \E v \in OneViewer : ViewerOpen(v)
    \/ \E v \in OneViewer : ServeHtml(v)
    \/ \E v \in OneViewer : SseHandler(v)
    \/ \E v \in OneViewer : EventStreamRecv(v)

SpecSource == InitSource /\ [][NextSource]_vars

\* Page loads against updates, under a fair scheduler: the runtime polls
\* every task that can run, so an update task past its acquire finishes its
\* block, a request holding the read guard replies, and the lock serves its
\* queue.
NextReads ==
    \/ EditFile
    \/ WatcherModifyOk
    \/ \E s \in Slots : TaskAcquire(s)
    \/ \E s \in Slots : TaskWriteLo(s)
    \/ \E s \in Slots : TaskWriteHi(s)
    \/ \E s \in Slots : TaskSend(s)
    \/ \E s \in Slots : TaskRelease(s)
    \/ LockGrant
    \/ \E v \in Viewers : ViewerOpen(v)
    \/ \E v \in Viewers : ServeHtml(v)

FairReads ==
    /\ \A s \in Slots : /\ WF_vars(TaskWriteLo(s))
                         /\ WF_vars(TaskWriteHi(s))
                         /\ WF_vars(TaskSend(s))
                         /\ WF_vars(TaskRelease(s))
    /\ WF_vars(LockGrant)
    /\ \A v \in Viewers : WF_vars(ServeHtml(v))

SpecReads == Init /\ [][NextReads]_vars /\ FairReads

-----------------------------------------------------------------------------
\* Properties.

\* No event is waiting and no update task is alive.
Quiescent == rx_notify = <<>> /\ LiveSlots = {}

\* The viewer has fetched the page (and may be listening for signals).
HasPage(v) == vpc[v] \in {"loaded", "streaming"}

\* C1 (causal delivery): a signal is in the channel only once the store it
\* announces is complete, and a viewer that received a signal and then
\* fetched the page holds a document at least as new, in store order, as the
\* one that signal announced.
CausalDelivery ==
    /\ \A i \in 1..Len(chan) : chan[i] <= commits
    /\ \A v \in Viewers :
          (HasPage(v) /\ lastSig[v] > 0) => page[v].seq >= lastSig[v]

\* A viewer reloaded on a signal and holds the page fetched after it.
CausalDeliveryWitness ==
    \E v \in Viewers : HasPage(v) /\ lastSig[v] > 0 /\ page[v].seq >= lastSig[v]

\* C2 (atomicity): at most one task holds the write guard, no read guard is
\* held while a write guard is, the String is half-stored only under the
\* write guard, and every page a viewer was served is one whole render.
Atomicity ==
    /\ Cardinality(lockW) <= 1
    /\ (lockW # {} => lockR = {})
    /\ (~Whole(html_content) => lockW # {})
    /\ \A v \in Viewers : vpc[v] \in {"loaded", "streaming", "reload", "ended"}
                               => Whole(page[v])

\* A reader waits while a store is half done, and another viewer was served.
AtomicityWitness ==
    /\ ~Whole(html_content)
    /\ \E v \in Viewers : vpc[v] = "waiting"
    /\ \E v \in Viewers : HasPage(v) /\ page[v].seq > 0

\* C3 (latest update wins): once every detected change has been handled and
\* every update task has finished, html_content is the render of the change
\* detected last.
LatestUpdateWins ==
    (Quiescent /\ spawned > 0) => html_content = lastRendered

\* C4 (the event stream never ends on its own): no viewer's stream is ever
\* over while its connection is still open.
StreamNeverEndsItself == \A v \in Viewers : vpc[v] # "ended"

\* C5 (at least one pending notification): whenever a registered receiver
\* with signals published since it last consumed one polls, the poll yields a
\* reload event.
PendingSignalYieldsReload ==
    [][\A v \in Viewers : EventStreamRecv(v) => vpc'[v] = "reload"]_vars

\* C6 (every open viewer ends up synchronized): once changes have stopped and
\* the cache holds the render of the file, a viewer that has loaded the page
\* and listens on /events with no signal left to receive displays that render.
ViewerSynchronized ==
    \A v \in Viewers :
        ( /\ Quiescent
          /\ file.present
          /\ html_content = render_markdown_to_html(file.text)
          /\ vpc[v] = "streaming"
          /\ Backlog(v) = 0 )
        => (page[v].lo = html_content.lo /\ page[v].hi = html_content.hi)

\* C7 (publishing never blocks): a task that has reached notifier.send can
\* always take that step, and one that has reached the end of its block can
\* always drop the write guard, whatever the receivers are doing.
PublishNeverBlocks ==
    \A s \in Slots :
        /\ (TaskOp(s) = "send" => ENABLED TaskSend(s))
        /\ (TaskOp(s) = "release" => ENABLED TaskRelease(s))

\* A task is about to publish while a receiver's backlog fills the channel.
PublishNeverBlocksWitness ==
    \E s \in Slots : \E v \in subs : TaskOp(s) = "send" /\ Backlog(v) >= Capacity

\* C8 (isolation): while B is registered, A's disconnecting (closing the tab
\* or reloading) leaves B's receiver, position and stream as they are and
\* logs no send error; every later publish is accepted without error and is
\* queued for B; and B's poll of a signal it has not fallen behind on yields
\* a reload event.
Isolation ==
    [][\A a, b \in Viewers :
          (a # b /\ b \in subs) =>
              /\ (ViewerClose(a) \/ ViewerReload(a)) =>
                     /\ b \in subs'
                     /\ next'[b] = next[b]
                     /\ vpc'[b] = vpc[b]
                     /\ sendErrors' = sendErrors
              /\ (a \notin subs /\ \E s \in Slots : TaskSend(s)) =>
                     /\ b \in subs'
                     /\ sent' - next'[b] = Backlog(b) + 1
                     /\ sendErrors' = sendErrors
              /\ (a \notin subs /\ EventStreamRecv(b) /\ ~Lagged(b)) =>
                     vpc'[b] = "reload"]_vars

\* A has connected and disconnected, B is still streaming with an earlier
\* signal to receive, and an update task is about to publish another.
IsolationWitness ==
    \E a, b \in Viewers :
        /\ a # b
        /\ vpc[a] = "closed"
        /\ vpc[b] = "streaming" /\ Backlog(b) > 0
        /\ \E s \in Slots : TaskOp(s) = "send"

\* C9 (a failed read is skipped): the step that logs "Error reading file"
\* changes neither the cache nor the channel nor any task or viewer, the
\* watcher thread stays alive, and it can always take the next event.
ReadFailureSkipped ==
    /\ [][WatcherModifyErr =>
            /\ UNCHANGED <<cacheVars, chanVars, taskVars, lockVars, subs, next,
                           viewVars, fsVars>>
            /\ watcher' = "running"]_vars
    /\ [](watcher = "running" /\ (rx_notify # <<>> => ENABLED WatcherStep))

\* A read failed, and an update was stored as well.
ReadFailureSkippedWitness == readErrors > 0 /\ commits > 0 /\ watcher = "running"

\* C10 (atomic save): once the file has been deleted and created again and
\* everything detected has been handled, html_content is the render of the
\* recreated file and at most one read error was logged.
AtomicSaveTolerated ==
    (recreated /\ Quiescent) =>
        (html_content = render_markdown_to_html(file.text) /\ readErrors <= 1)

EveryFilePathWatched == ~clipboard => watcher # "returned"

\* C13 (static artifact for the clipboard source): started from the
\* clipboard, the watcher never runs its loop, no update task is ever
\* spawned, html_content stays the first render and nothing is published.
StaticForClipboard ==
    clipboard =>
        /\ watcher \in {"starting", "returned"}
        /\ rx_notify = <<>>
        /\ spawned = 0
        /\ commits = 0
        /\ html_content = InitialRender
        /\ sent = 0 /\ sendErrors = 0
        /\ \A v \in Viewers : vpc[v] # "reload"

\* Started from the clipboard, the watcher has returned, a file at the path
\* has been saved and a viewer listens for signals.
StaticForClipboardWitness ==
    /\ clipboard
    /\ watcher = "returned"
    /\ file.text > 1
    /\ \E v \in Viewers : vpc[v] = "streaming" /\ page[v].lo = InitialRender.lo

\* C14 (no retroactive delivery): a new receiver has nothing to receive at
\* the moment it subscribes, its position never moves back, and what it
\* receives is the value at its position; so it receives only what was sent
\* after it subscribed.
NoRetroactiveDelivery ==
    /\ [](\A v \in subs : next[v] <= sent)
    /\ [][\A v \in Viewers :
              /\ SseHandler(v) => (v \in subs' /\ next'[v] = sent' /\ sent' = sent)
              /\ (v \in subs /\ v \in subs') => next'[v] >= next[v]
              /\ (EventStreamRecv(v) /\ ~Lagged(v)) =>
                     (next[v] < sent /\ lastSig'[v] = ValueAt(next[v]))]_vars

\* A viewer that subscribed after the first signal was sent has received the
\* second and nothing else.
NoRetroactiveDeliveryWitness ==
    \E v \in Viewers : vpc[v] = "reload" /\ sent = 2 /\ next[v] = 2 /\ lastSig[v] = 2

\* C15 (a valid artifact always exists when serving): whenever serve_html
\* holds the read guard the String is one whole render, of the first content
\* or of a later one, the reply can be built, and every page a viewer was
\* served is such a render.
ArtifactAlwaysValid ==
    /\ lockW = {} => \E t \in 1..MaxText : html_content = render_markdown_to_html(t)
    /\ \A v \in Viewers :
          /\ vpc[v] = "reading" =>
                 (Whole(html_content) /\ html_content # NoHtml /\ ENABLED ServeHtml(v))
          /\ HasPage(v) => (Whole(page[v]) /\ page[v].lo >= 1)

\* A viewer was served the first render, before any change was detected.
ArtifactAlwaysValidWitness ==
    \E v \in Viewers : HasPage(v) /\ page[v].seq = 0 /\ spawned = 0
                           /\ page[v].lo = InitialRender.lo

\* C16 (degradation on watch-primitive failure): a failure to set up the
\* watch does not end the watcher thread.
WatchFailureDegrades == watcher # "panicked"

\* C17 (one signal per update, under the write lock): every completed store
\* has been published once or is about to be, a task between its store and
\* its send holds the write guard, and no read guard is held then.
PublishUnderWriteLock ==
    /\ commits = sent + sendErrors + Cardinality({s \in Slots : TaskOp(s) = "send"})
    /\ \A s \in Slots :
          /\ TaskOp(s) \in {"write_lo", "write_hi", "send", "release"} => lockW = {s}
          /\ TaskOp(s) = "send" =>
                 (lockR = {} /\ html_content = tasks[s].html /\ tasks[s].seq = commits)

\* A task has stored and is about to publish to a registered receiver while
\* a reader waits for the lock.
PublishUnderWriteLockWitness ==
    /\ \E s \in Slots : TaskOp(s) = "send"
    /\ subs # {}
    /\ \E v \in Viewers : vpc[v] = "waiting"

\* C18 (reads always complete): every request that asked for the read guard
\* gets it and replies; meanwhile the holder of the write guard can always
\* take its next step and a holder of a read guard can always reply, so a
\* read waits only for stores in flight.
ReadsComplete ==
    /\ \A v \in Viewers : (vpc[v] \in {"waiting", "reading"}) ~> (vpc[v] = "loaded")
    /\ [](\A s \in lockW : ENABLED (TaskWriteLo(s) \/ TaskWriteHi(s) \/ TaskSend(s)
                                      \/ TaskRelease(s)))
    /\ [](\A v \in lockR : ENABLED ServeHtml(v))

\* A reader waits in the lock's queue behind a waiting writer, with another
\* update task alive.
ReadsCompleteWitness ==
    /\ Len(lockQ) >= 2
    /\ lockQ[1].kind = "w"
    /\ \E v \in Viewers : vpc[v] = "waiting"
    /\ Cardinality(LiveSlots) >= 2

UpdateWithoutSubscribers ==
    /\ [](/\ watcher = "running"
          /\ sendErrors <= commits
          /\ \A s \in Slots : (TaskOp(s) = "send" /\ subs = {}) =>
                 (html_content = tasks[s].html /\ ENABLED TaskSend(s)))
    /\ [][/\ \A s \in Slots : (TaskSend(s) /\ subs = {}) =>
                  /\ sendErrors' = sendErrors + 1
                  /\ UNCHANGED <<cacheVars, chanVars, watcher>>
                  /\ tasks'[s].pc = tasks[s].pc + 1
          /\ \A v \in Viewers : ServeHtml(v) =>
                  /\ page'[v].lo = html_content.lo
                  /\ page'[v].hi = html_content.hi
                  /\ page'[v].seq = commits]_vars

\* An update was stored and its publish found no receiver; a viewer that
\* connected afterwards holds that update.
UpdateWithoutSubscribersWitness ==
    /\ sendErrors > 0
    /\ sent = 0
    /\ Quiescent
    /\ \E v \in Viewers : HasPage(v) /\ page[v].seq = commits
                           /\ page[v].lo = lastRendered.lo

====
